---- MODULE Spec2Model ----
(***************************************************************************)
(* Model of model/upload_session.go: the UploadSession entity, its         *)
(* defaulting step (PreSave), its validator (IsValid) and its JSON         *)
(* serialization (ToJson / UploadSessionFromJson and the list variants).   *)
(*                                                                         *)
(* Go strings are byte strings; they are modelled as sequences of          *)
(* character tokens.  A JSON document is modelled as a tree of records     *)
(* tagged by "kind"; JSON string literals hold wire tokens (escapes).      *)
(***************************************************************************)
EXTENDS Integers, Sequences, FiniteSets, TLC

VARIABLES us, last, hist

vars == <<us, last, hist>>

(***************************************************************************)
(* Bounds of the model.                                                    *)
(***************************************************************************)
\* int64 is modelled as the two's-complement range MinInt..MaxInt.
MaxInt == 2
\* GetMillis() returns a value in 1..MaxClock.
MaxClock == 2
\* The upload-transfer logic advances FileOffset by 1..MaxStep bytes.
MaxStep == 2

MinInt == -MaxInt - 1

IntRange == MinInt..MaxInt

\* int64 arithmetic wraps around.
Wrap(x) == ((x - MinInt) % (MaxInt - MinInt + 1)) + MinInt

(***************************************************************************)
(* Characters.                                                             *)
(***************************************************************************)
Quote == "\""
Backslash == "\\"
\* A byte that is not valid UTF-8 (0xff).
BadByte == "<ff>"
\* U+FFFD, the Unicode replacement character.
Repl == "<U+FFFD>"
\* Wire tokens: the escape sequences of a JSON string literal.
EscQuote == "\\\""
EscBackslash == "\\\\"
EscRepl == "\\ufffd"

AlnumChars == {"a", "b", "c", "e", "h", "i", "m", "n", "o", "p", "r", "t"}

\* A Go string is valid UTF-8 when it holds no invalid byte.
IsUTF8(s) == \A i \in DOMAIN s : s[i] # BadByte

(***************************************************************************)
(* External collaborators (model/utils.go): identifiers and the clock.     *)
(***************************************************************************)
\* Length of an identifier (scaled down).
IdLen == 2

IsValidId(id) == Len(id) = IdLen /\ \A i \in DOMAIN id : id[i] \in AlnumChars

\* The identifiers NewId() may return.
NewIds == {<<"a", "a">>, <<"b", "b">>}

\* The values GetMillis() may return.
Clock == 1..MaxClock

(***************************************************************************)
(* UploadType and UploadSession.                                           *)
(***************************************************************************)
UploadTypeAttachment == <<"a", "t", "t", "a", "c", "h", "m", "e", "n", "t">>
UploadTypeImport == <<"i", "m", "p", "o", "r", "t">>

\* A nil *UploadSession (also: a nil []*UploadSession).
Nil == [nil |-> TRUE]

\* The zero value of the struct.
ZeroSession ==
    [Id |-> <<>>, Type |-> <<>>, CreateAt |-> 0, UserId |-> <<>>,
     ChannelId |-> <<>>, Filename |-> <<>>, Path |-> <<>>,
     FileSize |-> 0, FileOffset |-> 0]

(***************************************************************************)
(* encoding/json: documents, string literals, struct tags.                 *)
(***************************************************************************)
JNull == [kind |-> "null"]
JBool == [kind |-> "bool"]
JNumber(n) == [kind |-> "number", num |-> n]
\* A string literal, given by its wire tokens.
JLiteral(w) == [kind |-> "string", chars |-> w]
JArray(elems) == [kind |-> "array", elems |-> elems]
JObject(members) == [kind |-> "object", members |-> members]
Member(k, v) == [key |-> k, val |-> v]
\* An empty stream, and a stream that ends inside a value.
Eof == [kind |-> "eof"]
Truncated == [kind |-> "truncated"]

\* Marshal: quote and backslash are escaped, an invalid byte is coerced to
\* U+FFFD.
EncodeChar(c) ==
    CASE c = Quote -> EscQuote
      [] c = Backslash -> EscBackslash
      [] c = BadByte -> EscRepl
      [] OTHER -> c

EncodeString(s) == [i \in DOMAIN s |-> EncodeChar(s[i])]

JString(s) == JLiteral(EncodeString(s))

\* A raw quote ends a literal and a raw backslash starts an escape: neither
\* is a token of a well-formed literal.
WireOk(w) == \A i \in DOMAIN w : w[i] \notin {Quote, Backslash}

\* Unmarshal: escapes are resolved, an invalid byte is replaced by U+FFFD.
DecodeChar(t) ==
    CASE t = EscQuote -> Quote
      [] t = EscBackslash -> Backslash
      [] t = EscRepl -> Repl
      [] t = BadByte -> Repl
      [] OTHER -> t

DecodeString(w) == [i \in DOMAIN w |-> DecodeChar(w[i])]

\* Whether the decoder's scanner accepts the stream's first value.
RECURSIVE WellFormed(_)
WellFormed(d) ==
    CASE d.kind = "string" -> WireOk(d.chars)
      [] d.kind = "object" ->
            \A i \in DOMAIN d.members : WellFormed(d.members[i].val)
      [] d.kind = "array" -> \A i \in DOMAIN d.elems : WellFormed(d.elems[i])
      [] d.kind \in {"null", "bool", "number"} -> TRUE
      [] OTHER -> FALSE

\* The struct tags: the keys of the string fields and of the int64 fields.
\* Path is tagged "-": no key names it.
StringKeys == {"id", "type", "user_id", "channel_id", "filename"}
NumberKeys == {"create_at", "file_size", "file_offset"}

\* Keys match fields case-insensitively (the spellings the model uses).
FoldKey(k) ==
    CASE k = "ID" -> "id"
      [] k = "Path" -> "path"
      [] OTHER -> k

\* ToJson with the keys of FileSize and FileOffset exchanged.
ToJsonSwappedSizes(s) ==
    IF s = Nil THEN JNull
    ELSE JObject(
        <<Member("id", JString(s.Id)),
          Member("type", JString(s.Type)),
          Member("create_at", JNumber(s.CreateAt)),
          Member("user_id", JString(s.UserId))>>
        \o (IF s.ChannelId = <<>> THEN <<>>
            ELSE <<Member("channel_id", JString(s.ChannelId))>>)
        \o <<Member("filename", JString(s.Filename)),
             Member("file_offset", JNumber(s.FileSize)),
             Member("file_size", JNumber(s.FileOffset))>>)

\* ToJson with Path tagged "path" instead of "-".
ToJsonWithPath(s) ==
    IF s = Nil THEN JNull
    ELSE JObject(
        <<Member("id", JString(s.Id)),
          Member("type", JString(s.Type)),
          Member("create_at", JNumber(s.CreateAt)),
          Member("user_id", JString(s.UserId))>>
        \o (IF s.ChannelId = <<>> THEN <<>>
            ELSE <<Member("channel_id", JString(s.ChannelId))>>)
        \o <<Member("filename", JString(s.Filename)),
             Member("path", JString(s.Path)),
             Member("file_size", JNumber(s.FileSize)),
             Member("file_offset", JNumber(s.FileOffset))>>)

\* ToJson serializes the UploadSession into JSON.
ToJson(s) ==
    IF s = Nil THEN JNull
    ELSE JObject(
        <<Member("id", JString(s.Id)),
          Member("type", JString(s.Type)),
          Member("create_at", JNumber(s.CreateAt)),
          Member("user_id", JString(s.UserId))>>
        \o (IF s.ChannelId = <<>> THEN <<>>
            ELSE <<Member("channel_id", JString(s.ChannelId))>>)
        \o <<Member("filename", JString(s.Filename)),
             Member("file_size", JNumber(s.FileSize)),
             Member("file_offset", JNumber(s.FileOffset))>>)

\* UploadSessionsToJson serializes a list of UploadSession into JSON.
UploadSessionsToJson(uss) ==
    IF uss = Nil THEN JNull
    ELSE JArray([i \in DOMAIN uss.list |-> ToJson(uss.list[i])])

\* A member whose value cannot be stored in the field its key names
\* (an UnmarshalTypeError; null is stored nowhere and is no error).
MemberError(m) ==
    LET k == FoldKey(m.key)
    IN  \/ k \in StringKeys /\ m.val.kind \notin {"string", "null"}
        \/ k \in NumberKeys /\ m.val.kind \notin {"number", "null"}
        \/ k \in NumberKeys /\ m.val.kind = "number" /\ m.val.num \notin IntRange

SetField(s, k, v) ==
    CASE k = "id" -> [s EXCEPT !.Id = DecodeString(v.chars)]
      [] k = "type" -> [s EXCEPT !.Type = DecodeString(v.chars)]
      [] k = "create_at" -> [s EXCEPT !.CreateAt = v.num]
      [] k = "user_id" -> [s EXCEPT !.UserId = DecodeString(v.chars)]
      [] k = "channel_id" -> [s EXCEPT !.ChannelId = DecodeString(v.chars)]
      [] k = "filename" -> [s EXCEPT !.Filename = DecodeString(v.chars)]
      [] k = "file_size" -> [s EXCEPT !.FileSize = v.num]
      [] k = "file_offset" -> [s EXCEPT !.FileOffset = v.num]
      [] OTHER -> s

\* Unknown keys and null values leave the struct as it is.
RECURSIVE DecodeMembers(_, _)
DecodeMembers(s, members) ==
    IF members = <<>> THEN s
    ELSE LET m == Head(members)
             k == FoldKey(m.key)
         IN  DecodeMembers(
                 IF k \in StringKeys \cup NumberKeys /\ m.val.kind # "null"
                     THEN SetField(s, k, m.val)
                     ELSE s,
                 Tail(members))

ObjectError(d) == \E i \in DOMAIN d.members : MemberError(d.members[i])

\* UploadSessionFromJson deserializes the UploadSession from JSON data.
\* Decode fails on a syntax error and on a value that does not fit; a JSON
\* null leaves the struct at its zero value and is no error.
UploadSessionFromJson(data) ==
    IF ~WellFormed(data) THEN Nil
    ELSE IF data.kind = "null" THEN ZeroSession
    ELSE IF data.kind # "object" THEN Nil
    ELSE IF ObjectError(data) THEN Nil
    ELSE DecodeMembers(ZeroSession, data.members)

ElemError(e) ==
    \/ e.kind \notin {"null", "object"}
    \/ e.kind = "object" /\ ObjectError(e)

\* UploadSessionsFromJson deserializes a list of UploadSession from JSON
\* data: a null element decodes to a nil pointer.
UploadSessionsFromJson(data) ==
    IF ~WellFormed(data) THEN Nil
    ELSE IF data.kind # "array" THEN Nil
    ELSE IF \E i \in DOMAIN data.elems : ElemError(data.elems[i]) THEN Nil
    ELSE [list |->
            [i \in DOMAIN data.elems |->
                IF data.elems[i].kind = "null" THEN Nil
                ELSE DecodeMembers(ZeroSession, data.elems[i].members)]]

(***************************************************************************)
(* PreSave and IsValid.                                                    *)
(***************************************************************************)
\* PreSave that assigns a new Id whether or not one is set.
PreSaveOverwrite(s, id, now) ==
    [s EXCEPT !.Id = id,
              !.CreateAt = IF s.CreateAt = 0 THEN now ELSE s.CreateAt]

\* PreSave fills Id and CreateAt when they are unset; id and now are what
\* NewId() and GetMillis() return.
PreSave(s, id, now) ==
    [s EXCEPT !.Id = IF s.Id = <<>> THEN id ELSE s.Id,
              !.CreateAt = IF s.CreateAt = 0 THEN now ELSE s.CreateAt]

\* UploadType.IsValid: TRUE when it returns nil.
UploadTypeIsValid(t) ==
    CASE t = UploadTypeAttachment -> TRUE
      [] t = UploadTypeImport -> TRUE
      [] OTHER -> FALSE

\* The error kinds of UploadSession.IsValid (the ids of its AppErrors).
NoErr == "nil"
ErrId == "model.upload_session.is_valid.id.app_error"
ErrType == "model.upload_session.is_valid.type.app_error"
ErrUserId == "model.upload_session.is_valid.user_id.app_error"
ErrChannelId == "model.upload_session.is_valid.channel_id.app_error"
ErrCreateAt == "model.upload_session.is_valid.create_at.app_error"
ErrFilename == "model.upload_session.is_valid.filename.app_error"
ErrFileSize == "model.upload_session.is_valid.file_size.app_error"
ErrFileOffset == "model.upload_session.is_valid.file_offset.app_error"
ErrPath == "model.upload_session.is_valid.path.app_error"

\* IsValid that requires a channel of every type of upload.
IsValidChannelAlways(s) ==
    IF ~IsValidId(s.Id) THEN ErrId
    ELSE IF ~UploadTypeIsValid(s.Type) THEN ErrType
    ELSE IF ~IsValidId(s.UserId) THEN ErrUserId
    ELSE IF ~IsValidId(s.ChannelId) THEN ErrChannelId
    ELSE IF s.CreateAt = 0 THEN ErrCreateAt
    ELSE IF s.Filename = <<>> THEN ErrFilename
    ELSE IF s.FileSize <= 0 THEN ErrFileSize
    ELSE IF s.FileOffset < 0 \/ s.FileOffset > s.FileSize THEN ErrFileOffset
    ELSE IF s.Path = <<>> THEN ErrPath
    ELSE NoErr

\* IsValid that rejects FileOffset = FileSize.
IsValidStrictOffset(s) ==
    IF ~IsValidId(s.Id) THEN ErrId
    ELSE IF ~UploadTypeIsValid(s.Type) THEN ErrType
    ELSE IF ~IsValidId(s.UserId) THEN ErrUserId
    ELSE IF s.Type = UploadTypeAttachment /\ ~IsValidId(s.ChannelId)
        THEN ErrChannelId
    ELSE IF s.CreateAt = 0 THEN ErrCreateAt
    ELSE IF s.Filename = <<>> THEN ErrFilename
    ELSE IF s.FileSize <= 0 THEN ErrFileSize
    ELSE IF s.FileOffset < 0 \/ s.FileOffset >= s.FileSize THEN ErrFileOffset
    ELSE IF s.Path = <<>> THEN ErrPath
    ELSE NoErr

\* IsValid that checks CreateAt before UserId.
IsValidCreateAtFirst(s) ==
    IF ~IsValidId(s.Id) THEN ErrId
    ELSE IF ~UploadTypeIsValid(s.Type) THEN ErrType
    ELSE IF s.CreateAt = 0 THEN ErrCreateAt
    ELSE IF ~IsValidId(s.UserId) THEN ErrUserId
    ELSE IF s.Type = UploadTypeAttachment /\ ~IsValidId(s.ChannelId)
        THEN ErrChannelId
    ELSE IF s.Filename = <<>> THEN ErrFilename
    ELSE IF s.FileSize <= 0 THEN ErrFileSize
    ELSE IF s.FileOffset < 0 \/ s.FileOffset > s.FileSize THEN ErrFileOffset
    ELSE IF s.Path = <<>> THEN ErrPath
    ELSE NoErr

\* IsValid that checks Path before FileOffset.
IsValidPathFirst(s) ==
    IF ~IsValidId(s.Id) THEN ErrId
    ELSE IF ~UploadTypeIsValid(s.Type) THEN ErrType
    ELSE IF ~IsValidId(s.UserId) THEN ErrUserId
    ELSE IF s.Type = UploadTypeAttachment /\ ~IsValidId(s.ChannelId)
        THEN ErrChannelId
    ELSE IF s.CreateAt = 0 THEN ErrCreateAt
    ELSE IF s.Filename = <<>> THEN ErrFilename
    ELSE IF s.FileSize <= 0 THEN ErrFileSize
    ELSE IF s.Path = <<>> THEN ErrPath
    ELSE IF s.FileOffset < 0 \/ s.FileOffset > s.FileSize THEN ErrFileOffset
    ELSE NoErr

\* IsValid without the check of Path.
IsValidNoPathCheck(s) ==
    IF ~IsValidId(s.Id) THEN ErrId
    ELSE IF ~UploadTypeIsValid(s.Type) THEN ErrType
    ELSE IF ~IsValidId(s.UserId) THEN ErrUserId
    ELSE IF s.Type = UploadTypeAttachment /\ ~IsValidId(s.ChannelId)
        THEN ErrChannelId
    ELSE IF s.CreateAt = 0 THEN ErrCreateAt
    ELSE IF s.Filename = <<>> THEN ErrFilename
    ELSE IF s.FileSize <= 0 THEN ErrFileSize
    ELSE IF s.FileOffset < 0 \/ s.FileOffset > s.FileSize THEN ErrFileOffset
    ELSE NoErr

\* UploadSession.IsValid: the error it returns.
IsValid(s) ==
    IF ~IsValidId(s.Id) THEN ErrId
    ELSE IF ~UploadTypeIsValid(s.Type) THEN ErrType
    ELSE IF ~IsValidId(s.UserId) THEN ErrUserId
    ELSE IF s.Type = UploadTypeAttachment /\ ~IsValidId(s.ChannelId)
        THEN ErrChannelId
    ELSE IF s.CreateAt = 0 THEN ErrCreateAt
    ELSE IF s.Filename = <<>> THEN ErrFilename
    ELSE IF s.FileSize <= 0 THEN ErrFileSize
    ELSE IF s.FileOffset < 0 \/ s.FileOffset > s.FileSize THEN ErrFileOffset
    ELSE IF s.Path = <<>> THEN ErrPath
    ELSE NoErr

(***************************************************************************)
(* Inputs: the sessions a caller constructs and the streams it receives.   *)
(***************************************************************************)
ValidId == <<"a", "a">>
\* Non-empty, but no identifier.
MalformedId == <<"a", Quote>>

IdInputs == {<<>>, MalformedId, ValidId}
TypeInputs == {UploadTypeAttachment, UploadTypeImport, <<"a">>}
CreateAtInputs == {0, 1}
UserIdInputs == {MalformedId, ValidId}
ChannelIdInputs == {<<>>, ValidId}
FilenameInputs == {<<>>, <<"a">>}
PathInputs == {<<>>, <<"p">>}

\* The sessions a caller constructs before an upload.
Sessions ==
    [Id : IdInputs, Type : TypeInputs, CreateAt : CreateAtInputs,
     UserId : UserIdInputs, ChannelId : ChannelIdInputs,
     Filename : FilenameInputs, Path : PathInputs,
     FileSize : IntRange, FileOffset : IntRange]

\* File names that need escaping, and one that is not valid UTF-8.
WireFilenameInputs == {<<>>, <<"a", Quote, Backslash>>, <<BadByte, "a">>}

\* The sessions a caller serializes.
WireSessions ==
    [Id : IdInputs, Type : TypeInputs, CreateAt : CreateAtInputs,
     UserId : UserIdInputs, ChannelId : ChannelIdInputs,
     Filename : WireFilenameInputs, Path : PathInputs,
     FileSize : {0, MaxInt}, FileOffset : {MinInt, 0, 1}]

\* The members of a complete attachment record.
RecordMembers ==
    <<Member("id", JLiteral(ValidId)),
      Member("type", JLiteral(UploadTypeAttachment)),
      Member("create_at", JNumber(1)),
      Member("user_id", JLiteral(ValidId)),
      Member("channel_id", JLiteral(ValidId)),
      Member("filename", JLiteral(<<"a", EscQuote>>)),
      Member("file_size", JNumber(2)),
      Member("file_offset", JNumber(1))>>

\* Streams that hold a record.
RecordStreams ==
    {JObject(<<>>),
     JObject(RecordMembers),
     JObject(RecordMembers \o <<Member("path", JLiteral(<<"p">>))>>),
     JObject(RecordMembers \o <<Member("Path", JLiteral(<<"p">>))>>),
     JObject(RecordMembers \o <<Member("extra", JArray(<<JBool>>))>>),
     JObject(<<Member("ID", JLiteral(ValidId)), Member("id", JNull)>>),
     JObject(<<Member("filename", JLiteral(<<BadByte>>))>>),
     JObject(<<Member("file_size", JLiteral(<<"a">>))>> \o RecordMembers),
     JObject(<<Member("id", JNumber(1))>>),
     JObject(<<Member("file_size", JNumber(MaxInt + 1))>>),
     JObject(<<Member("filename", JLiteral(<<Backslash>>))>>)}

\* Streams that hold no record: empty, cut short, or another JSON value.
OtherStreams ==
    {Eof, Truncated, JNull, JBool, JNumber(1), JLiteral(<<"a">>),
     JArray(<<>>), JArray(<<JObject(RecordMembers)>>)}

Streams == RecordStreams \cup OtherStreams

ListStreams ==
    {Eof, Truncated, JNull, JNumber(1), JObject(RecordMembers),
     JArray(<<>>),
     JArray(<<JObject(RecordMembers)>>),
     JArray(<<JNull, JObject(RecordMembers)>>),
     JArray(<<JObject(<<>>), JObject(RecordMembers)>>),
     JArray(<<JObject(RecordMembers), JNumber(1)>>),
     JArray(<<JObject(<<Member("id", JNumber(1))>>)>>)}

(***************************************************************************)
(* The state: the caller's current session (us, possibly nil), the last    *)
(* operation with its arguments and result (last), and how the current     *)
(* session came about (hist):                                              *)
(*   "fresh"      constructed by the caller                                *)
(*   "uploading"  accepted by IsValid at FileOffset 0, and since then only *)
(*                advanced within FileSize                                 *)
(*   "overrun"    the last advance took it from "uploading" past FileSize  *)
(*   "decoded"    returned by a FromJson function, Path not set since      *)
(*   "echo"       decoded from the serialization of a valid session,       *)
(*                unchanged since                                          *)
(***************************************************************************)
Init ==
    /\ us \in Sessions
    /\ last = [op |-> "new"]
    /\ hist = "fresh"

\* us.PreSave()
PreSaveStep ==
    /\ us # Nil
    /\ \E id \in NewIds, now \in Clock :
          /\ us' = PreSave(us, id, now)
          /\ last' = [op |-> "PreSave", before |-> us,
                      n |-> IF last.op = "PreSave" THEN 2 ELSE 1]
          /\ hist' = IF us' = us THEN hist
                     ELSE IF hist \in {"decoded", "echo"} THEN "decoded"
                     ELSE "fresh"

\* us.IsValid()
ValidateStep ==
    /\ us # Nil
    /\ last' = [op |-> "IsValid", err |-> IsValid(us)]
    /\ hist' = IF hist = "fresh" /\ IsValid(us) = NoErr /\ us.FileOffset = 0
                   THEN "uploading"
                   ELSE hist
    /\ UNCHANGED us

\* us.ToJson()
SerializeStep ==
    /\ last' = [op |-> "ToJson", data |-> ToJson(us)]
    /\ UNCHANGED <<us, hist>>

\* UploadSessionsToJson of the session and a copy stored at another path.
SerializeListStep ==
    /\ us # Nil
    /\ \E p \in PathInputs \ {us.Path} :
          LET uss == [list |-> <<us, [us EXCEPT !.Path = p]>>]
          IN  last' = [op |-> "ListToJson", uss |-> uss,
                       data |-> UploadSessionsToJson(uss)]
    /\ UNCHANGED <<us, hist>>

\* UploadSessionFromJson of what ToJson just produced.
RoundTripStep ==
    /\ us # Nil
    /\ last.op = "ToJson"
    /\ LET d == UploadSessionFromJson(last.data)
       IN  /\ us' = d
           /\ last' = [op |-> "RoundTrip", src |-> us, data |-> last.data,
                       result |-> d]
           /\ hist' = IF d = Nil THEN "fresh"
                      ELSE IF IsValid(us) = NoErr THEN "echo"
                      ELSE "decoded"

\* A caller that holds no session obtains one: UploadSessionFromJson of a
\* received stream.
ReceiveStep ==
    \E data \in Streams :
        LET d == UploadSessionFromJson(data)
        IN  /\ us = Nil
            /\ us' = d
            /\ last' = [op |-> "FromJson", data |-> data, result |-> d]
            /\ hist' = IF d = Nil THEN "fresh" ELSE "decoded"

\* A caller that holds no session obtains a list: UploadSessionsFromJson
\* of a received stream; the caller goes on with one of the elements.
ReceiveListStep ==
    \E data \in ListStreams :
      us = Nil /\
        LET r == UploadSessionsFromJson(data)
            n == IF r = Nil THEN 0 ELSE Len(r.list)
        IN  \E i \in 1..(IF n = 0 THEN 1 ELSE n) :
               /\ us' = IF n = 0 THEN Nil ELSE r.list[i]
               /\ last' = [op |-> "ListFromJson", data |-> data, result |-> r]
               /\ hist' = IF us' = Nil THEN "fresh" ELSE "decoded"

\* The upload-transfer logic adds n received bytes to FileOffset.
AdvanceStep ==
    /\ us # Nil
    /\ \E n \in 1..MaxStep :
          /\ us' = [us EXCEPT !.FileOffset = Wrap(@ + n)]
          /\ last' = [op |-> "Advance"]
          /\ hist' = CASE hist = "uploading" ->
                             IF us.FileOffset + n <= us.FileSize
                                 THEN "uploading" ELSE "overrun"
                       [] hist = "overrun" -> "fresh"
                       [] hist = "echo" -> "decoded"
                       [] OTHER -> hist

\* The caller stores the file at a path.
SetPathStep ==
    /\ us # Nil
    /\ \E p \in PathInputs \ {<<>>} :
          us' = [us EXCEPT !.Path = p]
    /\ last' = [op |-> "SetPath"]
    /\ hist' = "fresh"

\* Preparing, validating and uploading a constructed session.
Next ==
    \/ PreSaveStep
    \/ ValidateStep
    \/ AdvanceStep
    \/ SetPathStep

Spec == Init /\ [][Next]_vars

\* A caller that serializes the session it holds, or holds none yet and
\* receives one.
WireInit ==
    /\ us \in WireSessions \cup {Nil}
    /\ last = [op |-> "new"]
    /\ hist = "fresh"

WireNext ==
    \/ SerializeStep
    \/ SerializeListStep
    \/ RoundTripStep
    \/ ReceiveStep
    \/ ReceiveListStep
    \/ PreSaveStep
    \/ ValidateStep
    \/ SetPathStep

WireSpec == WireInit /\ [][WireNext]_vars

(***************************************************************************)
(* Properties.                                                             *)
(***************************************************************************)
\* The nine invariants of a valid session.
AllNine(s) ==
    /\ IsValidId(s.Id)
    /\ s.Type \in {UploadTypeAttachment, UploadTypeImport}
    /\ IsValidId(s.UserId)
    /\ s.Type = UploadTypeAttachment => IsValidId(s.ChannelId)
    /\ s.CreateAt # 0
    /\ s.Filename # <<>>
    /\ s.FileSize > 0
    /\ 0 <= s.FileOffset /\ s.FileOffset <= s.FileSize
    /\ s.Path # <<>>

\* C1: IsValid returns nil if and only if all nine invariants hold together.
C1_ValidIffAllNine ==
    last.op = "IsValid" => (last.err = NoErr <=> AllNine(us))

\* IsValid has accepted an import session that names no channel.
C1_Witness ==
    /\ last.op = "IsValid"
    /\ last.err = NoErr
    /\ us.Type = UploadTypeImport
    /\ us.ChannelId = <<>>

\* The conditions the testable property of section 8 lists.
C2_Listed(s) ==
    /\ 0 <= s.FileOffset /\ s.FileOffset <= s.FileSize
    /\ s.FileSize > 0
    /\ s.Filename # <<>>
    /\ s.Path # <<>>
    /\ s.UserId # <<>>
    /\ s.Id # <<>>
    /\ s.Type \in {UploadTypeAttachment, UploadTypeImport}
    /\ s.Type = UploadTypeAttachment => IsValidId(s.ChannelId)

\* C2 as stated: the listed conditions alone make IsValid return nil.
C2_ListedSuffices ==
    last.op = "IsValid" /\ C2_Listed(us) => last.err = NoErr

\* C2, amended: the listed conditions together with a non-zero CreateAt and
\* well-formed Id and UserId make IsValid return nil.
C2_ListedAndWellFormed ==
    last.op = "IsValid" /\ C2_Listed(us) /\ us.CreateAt # 0
        /\ IsValidId(us.Id) /\ IsValidId(us.UserId)
    => last.err = NoErr

\* IsValid has accepted a completed attachment upload.
C2_Witness ==
    /\ last.op = "IsValid"
    /\ last.err = NoErr
    /\ us.Type = UploadTypeAttachment
    /\ us.FileOffset = us.FileSize

\* Whether session s violates the invariant that error kind e reports.
Violates(e, s) ==
    CASE e = ErrId -> ~IsValidId(s.Id)
      [] e = ErrType -> s.Type \notin {UploadTypeAttachment, UploadTypeImport}
      [] e = ErrUserId -> ~IsValidId(s.UserId)
      [] e = ErrChannelId ->
            s.Type = UploadTypeAttachment /\ ~IsValidId(s.ChannelId)
      [] e = ErrCreateAt -> s.CreateAt = 0
      [] e = ErrFilename -> s.Filename = <<>>
      [] e = ErrFileSize -> s.FileSize <= 0
      [] e = ErrFileOffset -> s.FileOffset < 0 \/ s.FileOffset > s.FileSize
      [] e = ErrPath -> s.Path = <<>>

\* The first kind of order that s violates; nil when it violates none.
FirstViolated(s, order) ==
    LET bad == {i \in DOMAIN order : Violates(order[i], s)}
    IN  IF bad = {} THEN NoErr
        ELSE order[CHOOSE i \in bad : \A j \in bad : i <= j]

\* The order of the rows of the data-model table.
TableOrder ==
    <<ErrId, ErrType, ErrCreateAt, ErrUserId, ErrChannelId, ErrFilename,
      ErrPath, ErrFileSize, ErrFileOffset>>

\* The order of the enumerated invariants 1 to 9.
InvariantOrder ==
    <<ErrId, ErrType, ErrUserId, ErrChannelId, ErrCreateAt, ErrFilename,
      ErrFileSize, ErrFileOffset, ErrPath>>

\* C3 as stated: IsValid reports the violated field that comes first in the
\* order of the data-model table.
C3_FirstInTableOrder ==
    last.op = "IsValid" => last.err = FirstViolated(us, TableOrder)

\* C3, amended: IsValid reports the violated invariant that comes first in
\* the order Id, Type, UserId, ChannelId, CreateAt, Filename, FileSize,
\* FileOffset, Path.
C3_FirstInInvariantOrder ==
    last.op = "IsValid" => last.err = FirstViolated(us, InvariantOrder)

\* IsValid has reported UserId for a session whose CreateAt is zero too.
C3_Witness ==
    /\ last.op = "IsValid"
    /\ last.err = ErrUserId
    /\ us.CreateAt = 0
    /\ us.Path = <<>>

OffsetOutOfRange(s) == s.FileOffset < 0 \/ s.FileOffset > s.FileSize

\* C4 as stated: whatever the other fields, an out-of-range FileOffset makes
\* IsValid report the file-offset kind.
C4_OffsetAlwaysReported ==
    last.op = "IsValid" /\ OffsetOutOfRange(us) => last.err = ErrFileOffset

\* C4, amended: an out-of-range FileOffset makes IsValid report the
\* file-offset kind when Id, Type, UserId, ChannelId (of an attachment),
\* CreateAt, Filename and FileSize pass their checks, whatever Path is.
C4_OffsetReportedAfterEarlierChecks ==
    last.op = "IsValid" /\ OffsetOutOfRange(us)
        /\ IsValidId(us.Id)
        /\ us.Type \in {UploadTypeAttachment, UploadTypeImport}
        /\ IsValidId(us.UserId)
        /\ (us.Type = UploadTypeAttachment => IsValidId(us.ChannelId))
        /\ us.CreateAt # 0
        /\ us.Filename # <<>>
        /\ us.FileSize > 0
    => last.err = ErrFileOffset

\* IsValid has reported an offset beyond FileSize of a session without Path.
C4_Witness ==
    /\ last.op = "IsValid"
    /\ last.err = ErrFileOffset
    /\ us.FileOffset > us.FileSize
    /\ us.Path = <<>>

\* C5: PreSave of a session with empty Id and zero CreateAt leaves a
\* well-formed Id and a non-zero CreateAt; PreSave keeps a non-empty Id and a
\* non-zero CreateAt and changes no other field; a second PreSave changes
\* nothing.
C5_PreSaveFillsOnce ==
    last.op = "PreSave" =>
        /\ last.before.Id = <<>> /\ last.before.CreateAt = 0
              => us.Id # <<>> /\ IsValidId(us.Id) /\ us.CreateAt # 0
        /\ last.before.Id # <<>> => us.Id = last.before.Id
        /\ last.before.CreateAt # 0 => us.CreateAt = last.before.CreateAt
        /\ us = [last.before EXCEPT !.Id = us.Id, !.CreateAt = us.CreateAt]
        /\ last.n = 2 => us = last.before

\* A second PreSave has run on a session whose Id and CreateAt the first
\* one filled, with another identifier and clock value on offer.
C5_Witness ==
    /\ last.op = "PreSave"
    /\ last.n = 2
    /\ us.Id = <<"b", "b">>
    /\ us.CreateAt = MaxClock
    /\ NewIds \ {us.Id} # {}
    /\ Clock \ {us.CreateAt} # {}

\* C9: a session that IsValid accepted at FileOffset 0 and that was only
\* advanced within FileSize since is accepted again; after the first advance
\* past FileSize IsValid reports the file-offset kind.
C9_UploadStaysValid ==
    last.op = "IsValid" =>
        /\ hist = "uploading" => last.err = NoErr
        /\ hist = "overrun" => last.err = ErrFileOffset

\* IsValid has accepted an upload that was advanced to completion.
C9_Witness ==
    /\ last.op = "IsValid"
    /\ hist = "uploading"
    /\ us.FileOffset = us.FileSize
    /\ last.err = NoErr

StringsUTF8(s) ==
    /\ IsUTF8(s.Id)
    /\ IsUTF8(s.Type)
    /\ IsUTF8(s.UserId)
    /\ IsUTF8(s.ChannelId)
    /\ IsUTF8(s.Filename)

\* C6 as stated: decoding the serialization of any valid session yields the
\* session with Path empty.
C6_RoundTrip ==
    last.op = "RoundTrip" /\ IsValid(last.src) = NoErr
    => last.result = [last.src EXCEPT !.Path = <<>>]

\* C6, amended: decoding the serialization of a valid session whose string
\* fields are valid UTF-8 yields the session with Path empty.
C6_RoundTripUTF8 ==
    last.op = "RoundTrip" /\ IsValid(last.src) = NoErr /\ StringsUTF8(last.src)
    => last.result = [last.src EXCEPT !.Path = <<>>]

\* A valid import session without channel, its file name needing escapes,
\* has been serialized and decoded.
C6_Witness ==
    /\ last.op = "RoundTrip"
    /\ IsValid(last.src) = NoErr
    /\ last.src.Type = UploadTypeImport
    /\ last.src.ChannelId = <<>>
    /\ last.src.Filename = <<"a", Quote, Backslash>>
    /\ \A i \in DOMAIN last.data.members :
          last.data.members[i].key # "channel_id"

\* A record that names Path, or holds its value.
ExposesPath(d, path) ==
    \E i \in DOMAIN d.members :
        \/ FoldKey(d.members[i].key) = "path"
        \/ path # <<>> /\ d.members[i].val = JString(path)

\* C7: no output of ToJson or UploadSessionsToJson holds a path key or the
\* value of Path, and sessions that differ only in Path serialize alike.
C7_PathNeverSerialized ==
    /\ last.op = "ToJson" /\ us # Nil =>
          /\ ~ExposesPath(last.data, us.Path)
          /\ \A p \in PathInputs : ToJson([us EXCEPT !.Path = p]) = last.data
    /\ last.op = "ListToJson" =>
          /\ \A i \in DOMAIN last.data.elems :
                ~ExposesPath(last.data.elems[i], last.uss.list[i].Path)
          /\ last.data.elems[1] = last.data.elems[2]

\* A list of two invalid sessions stored at different paths has been
\* serialized.
C7_Witness ==
    /\ last.op = "ListToJson"
    /\ last.uss.list[1].Path # last.uss.list[2].Path
    /\ IsValid(us) # NoErr
    /\ Len(last.data.elems) = 2

\* C8: UploadSessionFromJson returns nil for every stream that holds no
\* record or a malformed one.
C8_NoRecordNoSession ==
    last.op = "FromJson" /\ (last.data.kind # "object" \/ ~WellFormed(last.data))
    => last.result = Nil

\* C10: IsValid rejects a session obtained from a FromJson function as long
\* as Path is not set, and rejects the decoded serialization of a valid
\* session with the path kind.
C10_DecodedNeverValid ==
    last.op = "IsValid" =>
        /\ hist \in {"decoded", "echo"} => last.err # NoErr
        /\ hist = "echo" => last.err = ErrPath

\* IsValid has run on the decoded serialization of a valid session.
C10_Witness ==
    /\ last.op = "IsValid"
    /\ hist = "echo"
    /\ last.err = ErrPath

====
